---- MODULE Spec2Model ----
(***************************************************************************)
(* A model of bareasgi_graphql_next.controller.GraphQLController: the      *)
(* direct endpoint (handle_graphql), the subscription redirect and its     *)
(* follow-up (handle_sse), the Server-Sent-Events body (send_events) and   *)
(* shutdown().  Strings are sequences of one-character strings.            *)
(***************************************************************************)
EXTENDS Integers, Sequences, FiniteSets, TLC

VARIABLES
    cancellation_event,   \* GraphQLController.cancellation_event (is_set())
    shutdown_calls,       \* how many times shutdown() has been called
    http,                 \* the HTTP exchange in progress: request, response, engine calls
    sse,                  \* the SSE streams: one record per client
    now,                  \* the clock, in ticks
    shutdown_at           \* the tick of the first call of shutdown()

vars == <<cancellation_event, shutdown_calls, http, sse, now, shutdown_at>>

(***************************************************************************)
(* Bounds of the model.                                                    *)
(***************************************************************************)
MaxLen == 3          \* longest query text
MaxNameLen == 1      \* longest variable value and operation name
MaxDefs == 2         \* most definitions in one document
MaxShutdowns == 2    \* most calls of shutdown()
MaxItems == 2        \* most items one subscription source yields
MaxTime == 5         \* the clock stops here
PingInterval == 2    \* ping_interval, in ticks

(***************************************************************************)
(* Characters.                                                             *)
(***************************************************************************)
QUOTE == "\""
BACKSLASH == "\\"
REPLACEMENT == "U+FFFD"   \* what decoding an invalid UTF-8 byte yields

Letters ==
    {"a","b","c","d","e","f","g","h","i","j","k","l","m",
     "n","o","p","q","r","s","t","u","v","w","x","y","z",
     "A","B","C","D","E","F","G","H","I","J","K","L","M",
     "N","O","P","Q","R","S","T","U","V","W","X","Y","Z"}

Digits == {"0","1","2","3","4","5","6","7","8","9"}

HexDigits == <<"0","1","2","3","4","5","6","7","8","9","A","B","C","D","E","F">>

HexChars == Digits \cup {"a","b","c","d","e","f","A","B","C","D","E","F"}

IsHex(c) == c \in HexChars

HexValue(c) ==
    CASE c \in {"a","A"} -> 10 [] c \in {"b","B"} -> 11 [] c \in {"c","C"} -> 12
      [] c \in {"d","D"} -> 13 [] c \in {"e","E"} -> 14 [] c \in {"f","F"} -> 15
      [] OTHER -> CHOOSE n \in 0..9 : HexDigits[n + 1] = c

\* The code point of a character quote_plus has to escape.
Ord(c) ==
    CASE c = " " -> 32 [] c = QUOTE -> 34 [] c = "%" -> 37 [] c = "&" -> 38
      [] c = "*" -> 42 [] c = "+" -> 43 [] c = "," -> 44 [] c = ":" -> 58
      [] c = ";" -> 59 [] c = "=" -> 61 [] c = BACKSLASH -> 92
      [] c = "{" -> 123 [] c = "}" -> 125

\* The character of a byte, decoded as UTF-8 with errors='replace'.
Chr(n) ==
    CASE n = 32 -> " " [] n = 34 -> QUOTE [] n = 37 -> "%" [] n = 38 -> "&"
      [] n = 42 -> "*" [] n = 43 -> "+" [] n = 44 -> "," [] n = 58 -> ":"
      [] n = 59 -> ";" [] n = 61 -> "=" [] n = 92 -> BACKSLASH
      [] n = 123 -> "{" [] n = 125 -> "}"
      [] n >= 128 -> REPLACEMENT

(***************************************************************************)
(* urllib.parse: quote_plus, unquote_plus, parse_qs.                       *)
(***************************************************************************)
SafeChars == Letters \cup Digits \cup {"_", ".", "-", "~"}

IsSafe(c) == c \in SafeChars

QuoteChar(c) ==
    IF IsSafe(c) THEN <<c>>
    ELSE IF c = " " THEN <<"+">>
    ELSE <<"%", HexDigits[(Ord(c) \div 16) + 1], HexDigits[(Ord(c) % 16) + 1]>>

\* The concatenation of the pieces from..to of a sequence of strings.
RECURSIVE Join(_, _, _)
Join(pieces, from, to) ==
    IF from > to THEN <<>>
    ELSE IF from = to THEN pieces[from]
    ELSE LET mid == (from + to) \div 2
         IN Join(pieces, from, mid) \o Join(pieces, mid + 1, to)

quote_plus(s) == Join([i \in 1..Len(s) |-> QuoteChar(s[i])], 1, Len(s))

PlusToSpace(s) == [i \in 1..Len(s) |-> IF s[i] = "+" THEN " " ELSE s[i]]

\* s[i] starts an escape: '%' and two hex digits.  Escapes cannot overlap,
\* a hex digit not being '%'.
IsEscape(s, i) ==
    i >= 1 /\ i + 2 <= Len(s) /\ s[i] = "%" /\ IsHex(s[i + 1]) /\ IsHex(s[i + 2])

unquote(s) ==
    Join([i \in 1..Len(s) |->
            IF IsEscape(s, i) THEN <<Chr(16 * HexValue(s[i + 1]) + HexValue(s[i + 2]))>>
            ELSE IF IsEscape(s, i - 1) \/ IsEscape(s, i - 2) THEN <<>>
            ELSE <<s[i]>>],
         1, Len(s))

unquote_plus(s) == unquote(PlusToSpace(s))

\* The position of the first character of sep in s, or 0.
IndexOf(s, sep) ==
    IF \E i \in 1..Len(s) : s[i] \in sep
    THEN CHOOSE i \in 1..Len(s) : s[i] \in sep /\ \A j \in 1..(i - 1) : s[j] \notin sep
    ELSE 0

RECURSIVE Split(_, _)
Split(s, sep) ==
    LET i == IndexOf(s, sep) IN
    IF i = 0 THEN <<s>>
    ELSE <<SubSeq(s, 1, i - 1)>> \o Split(SubSeq(s, i + 1, Len(s)), sep)

\* parse_qs: the name/value pairs in order; a pair without '=' or with an
\* empty value is dropped (keep_blank_values=False).
RECURSIVE ParsePairs(_)
ParsePairs(pieces) ==
    IF pieces = <<>> THEN <<>>
    ELSE LET p == Head(pieces)
             i == IndexOf(p, {"="})
             rest == ParsePairs(Tail(pieces))
         IN IF i = 0 \/ i = Len(p) THEN rest
            ELSE << <<unquote_plus(SubSeq(p, 1, i - 1)),
                      unquote_plus(SubSeq(p, i + 1, Len(p)))>> >> \o rest

parse_qs(qs) == ParsePairs(Split(qs, {"&", ";"}))

HasName(pairs, name) == \E i \in 1..Len(pairs) : pairs[i][1] = name

\* parsed_qs[name][0]
FirstValue(pairs, name) ==
    pairs[CHOOSE i \in 1..Len(pairs) :
            /\ pairs[i][1] = name
            /\ \A j \in 1..(i - 1) : pairs[j][1] # name][2]

(***************************************************************************)
(* json: values, dumps, loads.  None and JSON null are the same value.     *)
(***************************************************************************)
JStr(s) == [t |-> "str", s |-> s, kv |-> <<>>]
JNull == [t |-> "null", s |-> <<>>, kv |-> <<>>]
JObj(kv) == [t |-> "obj", s |-> <<>>, kv |-> kv]

EscapeString(s) ==
    Join([i \in 1..Len(s) |->
            IF s[i] \in {QUOTE, BACKSLASH} THEN <<BACKSLASH, s[i]>> ELSE <<s[i]>>],
         1, Len(s))

RECURSIVE json_dumps(_)
RECURSIVE DumpMembers(_)
DumpMembers(kv) ==
    IF kv = <<>> THEN <<>>
    ELSE <<QUOTE>> \o EscapeString(kv[1][1]) \o <<QUOTE, ":", " ">> \o json_dumps(kv[1][2])
         \o (IF Len(kv) > 1 THEN <<",", " ">> ELSE <<>>) \o DumpMembers(Tail(kv))

json_dumps(v) ==
    CASE v.t = "str" -> <<QUOTE>> \o EscapeString(v.s) \o <<QUOTE>>
      [] v.t = "null" -> <<"n", "u", "l", "l">>
      [] v.t = "obj" -> <<"{">> \o DumpMembers(v.kv) \o <<"}">>

JSONDecodeError == [ok |-> FALSE, val |-> JNull, next |-> 0]
Parsed(v, next) == [ok |-> TRUE, val |-> v, next |-> next]

RECURSIVE SkipWs(_, _)
SkipWs(t, i) == IF i <= Len(t) /\ t[i] = " " THEN SkipWs(t, i + 1) ELSE i

\* t[i] is the first character after the opening quote.
RECURSIVE ScanString(_, _, _)
ScanString(t, i, acc) ==
    IF i > Len(t) THEN JSONDecodeError
    ELSE IF t[i] = QUOTE THEN Parsed(JStr(acc), i + 1)
    ELSE IF t[i] = BACKSLASH
         THEN IF i + 1 <= Len(t) /\ t[i + 1] \in {QUOTE, BACKSLASH}
              THEN ScanString(t, i + 2, Append(acc, t[i + 1]))
              ELSE JSONDecodeError
    ELSE ScanString(t, i + 1, Append(acc, t[i]))

RECURSIVE ParseValue(_, _)
RECURSIVE ParseMembers(_, _, _)
ParseValue(t, i) ==
    LET j == SkipWs(t, i) IN
    IF j > Len(t) THEN JSONDecodeError
    ELSE IF t[j] = QUOTE THEN ScanString(t, j + 1, <<>>)
    ELSE IF j + 3 <= Len(t) /\ SubSeq(t, j, j + 3) = <<"n", "u", "l", "l">>
         THEN Parsed(JNull, j + 4)
    ELSE IF t[j] = "{"
         THEN LET k == SkipWs(t, j + 1) IN
              IF k <= Len(t) /\ t[k] = "}" THEN Parsed(JObj(<<>>), k + 1)
              ELSE ParseMembers(t, k, <<>>)
    ELSE JSONDecodeError

\* i is where a key has to start.
ParseMembers(t, i, acc) ==
    IF i > Len(t) \/ t[i] # QUOTE THEN JSONDecodeError
    ELSE LET key == ScanString(t, i + 1, <<>>) IN
         IF ~key.ok THEN JSONDecodeError
         ELSE LET c == SkipWs(t, key.next) IN
              IF c > Len(t) \/ t[c] # ":" THEN JSONDecodeError
              ELSE LET v == ParseValue(t, c + 1) IN
                   IF ~v.ok THEN JSONDecodeError
                   ELSE LET e == SkipWs(t, v.next)
                            acc2 == Append(acc, <<key.val.s, v.val>>)
                        IN IF e > Len(t) THEN JSONDecodeError
                           ELSE IF t[e] = "}" THEN Parsed(JObj(acc2), e + 1)
                           ELSE IF t[e] = "," THEN ParseMembers(t, SkipWs(t, e + 1), acc2)
                           ELSE JSONDecodeError

\* json.loads: the value, or JSONDecodeError (also on trailing text).
json_loads(t) ==
    LET v == ParseValue(t, 1) IN
    IF v.ok /\ SkipWs(t, v.next) = Len(t) + 1 THEN v ELSE JSONDecodeError

\* dict access: a later duplicate key wins, as in a Python dict.
HasKey(obj, key) == \E i \in 1..Len(obj.kv) : obj.kv[i][1] = key

GetItem(obj, key) ==
    obj.kv[CHOOSE i \in 1..Len(obj.kv) :
             /\ obj.kv[i][1] = key
             /\ \A j \in (i + 1)..Len(obj.kv) : obj.kv[j][1] # key][2]

\* dict.get(key): None when the key is absent.
Get(obj, key) == IF HasKey(obj, key) THEN GetItem(obj, key) ELSE JNull

K_query == <<"q", "u", "e", "r", "y">>
K_variables == <<"v", "a", "r", "i", "a", "b", "l", "e", "s">>
K_operationName == <<"o", "p", "e", "r", "a", "t", "i", "o", "n", "N", "a", "m", "e">>
K_graphql == <<"g", "r", "a", "p", "h", "q", "l">>

(***************************************************************************)
(* Requests.  A request to the direct endpoint is its content-type header,  *)
(* the text of its body, the HTTP version and the host headers of its scope,*)
(* and what the engine (graphql.parse, graphql.graphql) answers for it.     *)
(***************************************************************************)
PathPrefix == "/api"

ContentTypes ==
    {"application/graphql", "application/json", "text/plain",
     "application/x-www-form-urlencoded", "multipart/form-data",
     "image/png", "absent"}

DefinitionKinds == {"query", "mutation", "subscription", "fragment"}

\* What graphql.parse returns: the kinds of the document's definitions, or
\* <<>> when it raises GraphQLSyntaxError (a document has a definition).
Documents == UNION {[1..n -> DefinitionKinds] : n \in 1..MaxDefs}
GraphQLSyntaxError == <<>>
ParseResults == Documents \cup {GraphQLSyntaxError}

\* What graphql.graphql does: a result with data, a result whose errors
\* carry a validation error, or an exception.
EngineOutcomes == {"data", "validation_errors", "raises"}

RECURSIVE StringsOver(_, _)
StringsOver(alphabet, n) ==
    IF n = 0 THEN {<<>>}
    ELSE LET shorter == StringsOver(alphabet, n - 1)
         IN shorter \cup {Append(s, c) : s \in {x \in shorter : Len(x) = n - 1}, c \in alphabet}

TextAlphabet == {"a", " ", "+", "%", "2", "B"}
QueryTexts == StringsOver(TextAlphabet, MaxLen) \ {<<>>}
ShortTexts == StringsOver(TextAlphabet, MaxNameLen)

Request(ct, text, multipart, doc, version, headers, engine) ==
    [content_type |-> ct, text |-> text, multipart_ok |-> multipart, parse |-> doc,
     http_version |-> version, headers |-> headers, engine |-> engine]

Body(q, v, o) == JObj(<< <<K_query, JStr(q)>>, <<K_variables, v>>, <<K_operationName, o>> >>)

\* The body texts of the routing requests: an operation, an operation with
\* its optional fields, an object without 'query', a broken object, a form,
\* and a bare query.
T_operation == json_dumps(JObj(<< <<K_query, JStr(<<"a">>)>> >>))
T_full == json_dumps(Body(<<"a">>, JNull, JStr(<<"a">>)))
T_no_query == json_dumps(JObj(<< <<K_variables, JNull>> >>))
T_broken == <<"{">>
T_form == K_query \o <<"=", "a">>
T_bare == <<"a">>
RoutingTexts == {T_operation, T_full, T_no_query, T_broken, T_form, T_bare}

HostHeaders == SUBSET {"host", ":authority"}
HttpVersions == {"1.1", "2"}

\* A multipart body that parse_multipart cannot read.
UnreadableMultipart ==
    Request("multipart/form-data", T_bare, FALSE, <<"query">>, "1.1", {"host"}, "data")

\* The requests of the redirect round trip: JSON bodies over every query
\* text, with and without variables and operation name, detected as
\* subscriptions.
VariableValues == {JNull} \cup {JObj(<< <<(<<"v">>), JStr(x)>> >>) : x \in ShortTexts}
OperationNames == {JNull} \cup {JStr(x) : x \in ShortTexts}

RoundTripRequest(q, v, o) ==
    Request("application/json", json_dumps(Body(q, v, o)), TRUE, <<"subscription">>,
            "1.1", {"host"}, "data")

(***************************************************************************)
(* The direct endpoint.                                                    *)
(***************************************************************************)
Raised == [raised |-> TRUE, value |-> JNull]
Returned(v) == [raised |-> FALSE, value |-> v]

\* {name: value[0] for name, value in body.items()}
RECURSIVE FirstValues(_, _)
FirstValues(pairs, seen) ==
    IF pairs = <<>> THEN <<>>
    ELSE IF pairs[1][1] \in seen THEN FirstValues(Tail(pairs), seen)
    ELSE << <<pairs[1][1], JStr(pairs[1][2])>> >> \o FirstValues(Tail(pairs), seen \cup {pairs[1][1]})

\* _get_query_document with its last branch lost: a content type it does not
\* know is read as a bare query.
_get_query_document_lenient(req) ==
    CASE req.content_type \in {"application/json", "text/plain"} ->
            LET v == json_loads(req.text) IN IF v.ok THEN Returned(v.val) ELSE Raised
      [] req.content_type = "application/x-www-form-urlencoded" ->
            Returned(JObj(FirstValues(parse_qs(req.text), {})))
      [] req.content_type = "multipart/form-data" ->
            IF req.multipart_ok
            THEN Returned(JObj(<< <<K_query, JStr(req.text)>> >>))
            ELSE Raised
      [] OTHER -> Returned(JObj(<< <<K_query, JStr(req.text)>> >>))

\* GraphQLController._get_query_document
_get_query_document(req) ==
    CASE req.content_type = "application/graphql" ->
            Returned(JObj(<< <<K_query, JStr(req.text)>> >>))
      [] req.content_type \in {"application/json", "text/plain"} ->
            LET v == json_loads(req.text) IN IF v.ok THEN Returned(v.val) ELSE Raised
      [] req.content_type = "application/x-www-form-urlencoded" ->
            Returned(JObj(FirstValues(parse_qs(req.text), {})))
      [] req.content_type = "multipart/form-data" ->
            IF req.multipart_ok
            THEN Returned(JObj(<< <<K_query, JStr(req.text)>> >>))
            ELSE Raised
      [] OTHER -> Raised

_is_subscription(definition) == definition = "subscription"

\* _has_subscription looking at the first definition only.
_has_subscription_first(document) == _is_subscription(document[1])

_has_subscription(document) ==
    \E i \in 1..Len(document) : _is_subscription(document[i])

_is_http_2(req) == req.http_version \in {"2", "2.0"}

\* _get_host: the header's value, or None when the scope has no such header.
_get_host(req) ==
    IF _is_http_2(req)
    THEN (IF ":authority" \in req.headers THEN "host.example" ELSE "None")
    ELSE (IF "host" \in req.headers THEN "host.example" ELSE "None")

NoLocation == [path |-> <<>>, query_string |-> <<>>]
NoResult == [data |-> "absent", errors |-> FALSE]

INTERNAL_SERVER_ERROR ==
    [status |-> 500, content_type |-> "text/plain", text |-> "Internal server error",
     result |-> NoResult, location |-> NoLocation]

CREATED(location) ==
    [status |-> 201, content_type |-> "absent", text |-> "",
     result |-> NoResult, location |-> location]

OK(result) ==
    [status |-> 200, content_type |-> "application/json", text |-> "",
     result |-> result, location |-> NoLocation]

Answer(response, calls) == [response |-> response, execute_calls |-> calls]

\* The subscription branch of handle_graphql.
RedirectToSse(req, body) ==
    IF _get_host(req) = "None"
    THEN Answer(INTERNAL_SERVER_ERROR, 0)
    ELSE Answer(CREATED([path |-> <<PathPrefix, "/sse-subscription">>,
                         query_string |-> K_graphql \o <<"=">> \o quote_plus(json_dumps(body))]), 0)

\* The query branch of handle_graphql.
ExecuteQuery(req) ==
    CASE req.engine = "raises" -> Answer(INTERNAL_SERVER_ERROR, 1)
      [] req.engine = "data" -> Answer(OK([data |-> "value", errors |-> FALSE]), 1)
      [] req.engine = "validation_errors" -> Answer(OK([data |-> "null", errors |-> TRUE]), 1)

\* GraphQLController.handle_graphql: the response and the number of calls
\* of graphql.graphql.
handle_graphql(req) ==
    LET decoded == _get_query_document(req) IN
    IF decoded.raised THEN Answer(INTERNAL_SERVER_ERROR, 0)
    ELSE LET body == decoded.value IN
         IF body.t # "obj" \/ ~HasKey(body, K_query) THEN Answer(INTERNAL_SERVER_ERROR, 0)
         ELSE IF req.parse = GraphQLSyntaxError THEN Answer(INTERNAL_SERVER_ERROR, 0)
         ELSE IF _has_subscription(req.parse) THEN RedirectToSse(req, body)
         ELSE ExecuteQuery(req)

(***************************************************************************)
(* The SSE endpoint: handle_sse, and the stream record it leaves.          *)
(*   pc: where the body generator send_events is                           *)
(*     "none"        no request yet                                        *)
(*     "escaped"     handle_sse raised: there is no response of its own    *)
(*     "created"     the response was returned, the body not yet iterated  *)
(*     "await"       inside cancellable_aiter, waiting for the next value  *)
(*     "at_message"  suspended at 'yield message'                          *)
(*     "at_flush"    suspended at the yield of the flush comment           *)
(*     "stopped"     the loop ended: the source completed                  *)
(*     "cancelled"   the loop ended: the cancellation event was observed   *)
(*     "task_cancelled"  CancelledError was caught                         *)
(*     "raised"      an exception left the generator                       *)
(*     "closed"      the consumer closed the suspended generator           *)
(*     "abandoned"   the consumer dropped the generator before iterating   *)
(***************************************************************************)
Streams == {"s1", "s2"}

Some(item) == [some |-> TRUE, item |-> item]
None == [some |-> FALSE, item |-> 0]

NoOperation == [query_text |-> JNull, variables |-> JNull, operation_name |-> JNull]

NoStream ==
    [pc |-> "none", setup |-> "none", response |-> "none", operation |-> NoOperation,
     body |-> <<>>, merged |-> <<>>, source |-> "none", produced |-> 0,
     timer_from |-> 0, before_shutdown |-> FALSE]

Live == {"created", "await", "at_message", "at_flush"}
Ended == {"stopped", "cancelled", "task_cancelled", "raised", "closed", "abandoned"}

\* handle_sse raised before returning a response.
Escaped(why, operation) ==
    [NoStream EXCEPT !.pc = "escaped", !.setup = why, !.response = "exception",
                     !.operation = operation]

\* body['query'], body.get('variables'), body.get('operationName')
OperationOf(body) ==
    [query_text |-> GetItem(body, K_query), variables |-> Get(body, K_variables),
     operation_name |-> Get(body, K_operationName)]

\* GraphQLController.handle_sse: qs is scope['query_string'], doc
\* what graphql.parse returns and subscribed what graphql.subscribe returns
\* ("iterator": a result sequence; "setup_failure": an ExecutionResult).
handle_sse(qs, doc, subscribed) ==
    LET parsed_qs == parse_qs(qs) IN
    IF ~HasName(parsed_qs, K_graphql) THEN Escaped("decode_error", NoOperation)
    ELSE LET loaded == json_loads(unquote_plus(FirstValue(parsed_qs, K_graphql))) IN
         IF ~loaded.ok \/ loaded.val.t # "obj" \/ ~HasKey(loaded.val, K_query)
         THEN Escaped("decode_error", NoOperation)
         ELSE IF doc = GraphQLSyntaxError
              THEN Escaped("parse_error", OperationOf(loaded.val))
              ELSE [NoStream EXCEPT
                      !.pc = "created",
                      !.setup = IF subscribed = "iterator" THEN "subscribed" ELSE "setup_failure",
                      !.response = "event_stream",
                      !.operation = OperationOf(loaded.val),
                      !.source = IF subscribed = "iterator" THEN "unstarted" ELSE "none"]

(***************************************************************************)
(* cancellable_aiter(result, cancellation_event, timeout=ping_interval):   *)
(* the merge of the result sequence with the heartbeat timer.              *)
(***************************************************************************)
\* The first request for a value starts the source and the timer.
MergeStart(st, t) == [st EXCEPT !.source = "active", !.timer_from = t]

\* A value is handed to the consumer; the wait window starts again.
MergeEmit(st, val, t) == [st EXCEPT !.merged = Append(@, val), !.timer_from = t]

\* The timer of the wait window has run out.
TimerDue(st, t) == t - st.timer_from >= PingInterval

\* A merge that leaves the source as it is.
MergeDispose_leaks(st) == st

\* The source is released, unless it has ended by itself.
MergeDispose(st) ==
    [st EXCEPT !.source = IF @ \in {"unstarted", "active"} THEN "disposed" ELSE @]

\* The merge ends the sequence once the event is set.
MergeObserves(event) == event

(***************************************************************************)
(* send_events: the frames.                                                *)
(***************************************************************************)
FLUSH == [event |-> "comment", data |-> 0]

\* Frame with the test of 'val is None' turned round.
Frame_inverted(val) ==
    IF val.some THEN [event |-> "ping", data |-> 0]
    ELSE [event |-> "message", data |-> val.item]

\* The frame of one merged value: a ping carries the time of day, a message
\* the value (0 stands for the clock's reading).
Frame(val) ==
    IF ~val.some THEN [event |-> "ping", data |-> 0]
    ELSE [event |-> "message", data |-> val.item]

\* send_events has a value: it yields the frame.
YieldFrame(st, val) ==
    [st EXCEPT !.body = Append(@, Frame(val)), !.pc = "at_message"]

(***************************************************************************)
(* shutdown()                                                              *)
(***************************************************************************)
\* A shutdown that leaves the event alone.
shutdown_forgets(event) == event

\* A shutdown that flips the event.
shutdown_toggles(event) == ~event

\* GraphQLController.shutdown: cancellation_event.set()
shutdown(event) == TRUE

(***************************************************************************)
(* The explorer page and the WebSocket entry point.                        *)
(***************************************************************************)
NoRequest == Request("absent", <<>>, TRUE, GraphQLSyntaxError, "1.1", {}, "data")

NoResponse ==
    [status |-> 0, content_type |-> "absent", text |-> "",
     result |-> NoResult, location |-> NoLocation]

\* view_graphiql: the page, or the exception that leaves the handler.
view_graphiql(req) ==
    IF _get_host(req) = "None" THEN NoResponse
    ELSE [NoResponse EXCEPT !.status = 200, !.content_type = "text/html"]

Idle ==
    [phase |-> "idle", handler |-> "none", request |-> NoRequest,
     response |-> NoResponse, execute_calls |-> 0, follower |-> "none"]

(***************************************************************************)
(* The state machine.                                                      *)
(***************************************************************************)
Init ==
    /\ cancellation_event = FALSE
    /\ shutdown_calls = 0
    /\ http = Idle
    /\ sse = [s \in Streams |-> NoStream]
    /\ now = 0
    /\ shutdown_at = 0

\* A client calls the direct endpoint.
HandleGraphql(req) ==
    /\ http.phase = "idle"
    /\ LET answer == handle_graphql(req) IN
       http' = [Idle EXCEPT !.phase = "responded", !.handler = "handle_graphql",
                            !.request = req, !.response = answer.response,
                            !.execute_calls = answer.execute_calls]
    /\ UNCHANGED <<cancellation_event, shutdown_calls, sse, now, shutdown_at>>

\* A client asks for the explorer page.
ViewGraphiql(req) ==
    /\ http.phase = "idle"
    /\ http' = [Idle EXCEPT !.phase = "responded", !.handler = "view_graphiql",
                            !.request = req, !.response = view_graphiql(req)]
    /\ UNCHANGED <<cancellation_event, shutdown_calls, sse, now, shutdown_at>>

\* A client opens the WebSocket endpoint: the controller hands the socket
\* to the WebSocket handler, which was built from the schema alone.
HandleSubscription ==
    /\ http.phase = "idle"
    /\ http' = [Idle EXCEPT !.phase = "responded", !.handler = "handle_subscription"]
    /\ UNCHANGED <<cancellation_event, shutdown_calls, sse, now, shutdown_at>>

\* The exchange is over.
ExchangeDone ==
    /\ http.phase # "idle"
    /\ http' = Idle
    /\ UNCHANGED <<cancellation_event, shutdown_calls, sse, now, shutdown_at>>

\* A client calls the SSE endpoint.
HandleSse(s, qs, doc, subscribed) ==
    /\ sse[s].pc = "none"
    /\ sse' = [sse EXCEPT ![s] =
                 [handle_sse(qs, doc, subscribed) EXCEPT !.before_shutdown = shutdown_calls = 0]]
    /\ UNCHANGED <<cancellation_event, shutdown_calls, http, now, shutdown_at>>

\* The client that was answered CREATED requests the location it was given.
FollowLocation(s) ==
    /\ http.phase = "responded"
    /\ http.response.status = 201
    /\ sse[s].pc = "none"
    /\ sse' = [sse EXCEPT ![s] =
                 [handle_sse(http.response.location.query_string, http.request.parse, "iterator")
                    EXCEPT !.before_shutdown = shutdown_calls = 0]]
    /\ http' = [http EXCEPT !.phase = "followed", !.follower = s]
    /\ UNCHANGED <<cancellation_event, shutdown_calls, now, shutdown_at>>

\* The server asks the body for its first chunk: send_events enters the loop
\* over cancellable_aiter, which fails on a result that is no sequence.
FirstPull(s) ==
    /\ sse[s].pc = "created"
    /\ sse' = [sse EXCEPT ![s] =
                 IF sse[s].setup = "setup_failure" THEN [sse[s] EXCEPT !.pc = "raised"]
                 ELSE [MergeStart(sse[s], now) EXCEPT !.pc = "await"]]
    /\ UNCHANGED <<cancellation_event, shutdown_calls, http, now, shutdown_at>>

\* The source yields its next item: a message frame.
Item(s) ==
    /\ sse[s].pc = "await"
    /\ ~MergeObserves(cancellation_event)
    /\ sse[s].source = "active"
    /\ sse[s].produced < MaxItems
    /\ LET item == sse[s].produced + 1
           st == [sse[s] EXCEPT !.produced = item]
       IN sse' = [sse EXCEPT ![s] = YieldFrame(MergeEmit(st, Some(item), now), Some(item))]
    /\ UNCHANGED <<cancellation_event, shutdown_calls, http, now, shutdown_at>>

\* The timer runs out first: a ping frame.
Heartbeat(s) ==
    /\ sse[s].pc = "await"
    /\ ~MergeObserves(cancellation_event)
    /\ TimerDue(sse[s], now)
    /\ sse' = [sse EXCEPT ![s] = YieldFrame(MergeEmit(sse[s], None, now), None)]
    /\ UNCHANGED <<cancellation_event, shutdown_calls, http, now, shutdown_at>>

\* The server asks for the next chunk: the flush comment.
PullFlush(s) ==
    /\ sse[s].pc = "at_message"
    /\ sse' = [sse EXCEPT ![s] = [@ EXCEPT !.body = Append(@, FLUSH), !.pc = "at_flush"]]
    /\ UNCHANGED <<cancellation_event, shutdown_calls, http, now, shutdown_at>>

\* The server asks for the next chunk: back into the loop.
PullNext(s) ==
    /\ sse[s].pc = "at_flush"
    /\ sse' = [sse EXCEPT ![s] = [@ EXCEPT !.pc = "await"]]
    /\ UNCHANGED <<cancellation_event, shutdown_calls, http, now, shutdown_at>>

\* The source completes: the loop ends.
SourceCompletes(s) ==
    /\ sse[s].pc = "await"
    /\ sse[s].source = "active"
    /\ sse' = [sse EXCEPT ![s] = [@ EXCEPT !.source = "completed", !.pc = "stopped"]]
    /\ UNCHANGED <<cancellation_event, shutdown_calls, http, now, shutdown_at>>

\* The source fails: the exception passes through the merge and, not being
\* a CancelledError, through send_events.
SourceFails(s) ==
    /\ sse[s].pc = "await"
    /\ sse[s].source = "active"
    /\ sse' = [sse EXCEPT ![s] = [@ EXCEPT !.source = "failed", !.pc = "raised"]]
    /\ UNCHANGED <<cancellation_event, shutdown_calls, http, now, shutdown_at>>

\* The merge sees the cancellation event set: the loop ends.
Cancelled(s) ==
    /\ sse[s].pc = "await"
    /\ MergeObserves(cancellation_event)
    /\ sse' = [sse EXCEPT ![s] = [MergeDispose(@) EXCEPT !.pc = "cancelled"]]
    /\ UNCHANGED <<cancellation_event, shutdown_calls, http, now, shutdown_at>>

\* The task is cancelled while send_events waits: CancelledError is caught.
TaskCancelled(s) ==
    /\ sse[s].pc = "await"
    /\ sse' = [sse EXCEPT ![s] = [MergeDispose(@) EXCEPT !.pc = "task_cancelled"]]
    /\ UNCHANGED <<cancellation_event, shutdown_calls, http, now, shutdown_at>>

\* The client goes away and the server closes the suspended body: the merge
\* is finalized with it.
BodyClosed(s) ==
    /\ sse[s].pc \in {"at_message", "at_flush"}
    /\ sse' = [sse EXCEPT ![s] = [MergeDispose(@) EXCEPT !.pc = "closed"]]
    /\ UNCHANGED <<cancellation_event, shutdown_calls, http, now, shutdown_at>>

\* The client goes away before the body was iterated at all.
BodyDropped(s) ==
    /\ sse[s].pc = "created"
    /\ sse' = [sse EXCEPT ![s] = [@ EXCEPT !.pc = "abandoned"]]
    /\ UNCHANGED <<cancellation_event, shutdown_calls, http, now, shutdown_at>>

Shutdown ==
    /\ shutdown_calls < MaxShutdowns
    /\ cancellation_event' = shutdown(cancellation_event)
    /\ shutdown_calls' = shutdown_calls + 1
    /\ shutdown_at' = IF shutdown_calls = 0 THEN now ELSE shutdown_at
    /\ UNCHANGED <<http, sse, now>>

\* A stream that has something to do now: the server pulls without delay,
\* and a timer that has run out wakes the merge.
Urgent(st) ==
    \/ st.pc \in {"created", "at_message", "at_flush"}
    \/ st.pc = "await" /\ TimerDue(st, now)

Tick ==
    /\ now < MaxTime
    /\ \A s \in Streams : ~Urgent(sse[s])
    /\ now' = now + 1
    /\ UNCHANGED <<cancellation_event, shutdown_calls, http, sse, shutdown_at>>

(***************************************************************************)
(* The requests of the SSE clients.                                        *)
(***************************************************************************)
QS_operation == K_graphql \o <<"=">> \o quote_plus(T_full)
QS_no_parameter == <<"x", "=", "a">>
QS_broken == K_graphql \o <<"=">> \o quote_plus(T_broken)
SseQueryStrings == {QS_operation, QS_no_parameter, QS_broken}

ClientSubscribes(s) ==
    /\ sse[s].pc = "none"
    /\ \E qs \in SseQueryStrings, doc \in {GraphQLSyntaxError, <<"subscription">>},
       subscribed \in {"iterator", "setup_failure"} :
        HandleSse(s, qs, doc, subscribed)

StreamStep(s) ==
    \/ FirstPull(s)
    \/ Item(s)
    \/ Heartbeat(s)
    \/ PullFlush(s)
    \/ PullNext(s)
    \/ SourceCompletes(s)
    \/ SourceFails(s)
    \/ Cancelled(s)
    \/ TaskCancelled(s)
    \/ BodyClosed(s)
    \/ BodyDropped(s)

\* The SSE endpoint with one client, shutdown and the clock.
NextSse ==
    \/ ClientSubscribes("s1")
    \/ StreamStep("s1")
    \/ Shutdown
    \/ Tick

SpecSse == Init /\ [][NextSse]_vars

\* Two clients that stay connected, their sources yielding items at any
\* time and never ending, the heartbeat timers, shutdown and the clock.
NextShutdown ==
    \/ \E s \in Streams : HandleSse(s, QS_operation, <<"subscription">>, "iterator")
    \/ \E s \in Streams : FirstPull(s)
    \/ \E s \in Streams : Item(s)
    \/ \E s \in Streams : Heartbeat(s)
    \/ \E s \in Streams : PullFlush(s)
    \/ \E s \in Streams : PullNext(s)
    \/ \E s \in Streams : Cancelled(s)
    \/ Shutdown
    \/ Tick

SpecShutdown == Init /\ [][NextShutdown]_vars

\* The direct endpoint under every routing request.
RoutingCall ==
    /\ http.phase = "idle"
    /\ \E ct \in ContentTypes, text \in RoutingTexts, doc \in ParseResults,
          ver \in HttpVersions, hs \in HostHeaders, eng \in EngineOutcomes :
            HandleGraphql(Request(ct, text, TRUE, doc, ver, hs, eng))

NextGraphql ==
    \/ RoutingCall
    \/ HandleGraphql(UnreadableMultipart)
    \/ ExchangeDone

SpecGraphql == Init /\ [][NextGraphql]_vars

\* The redirect and its follow-up.
SubscriptionCall ==
    /\ http.phase = "idle"
    /\ \E q \in QueryTexts, v \in VariableValues, o \in OperationNames :
            HandleGraphql(RoundTripRequest(q, v, o))

NextRedirect ==
    \/ SubscriptionCall
    \/ FollowLocation("s1")

SpecRedirect == Init /\ [][NextRedirect]_vars

\* The whole controller: every handler, one SSE client, shutdown, the clock.
SampleRequests ==
    {Request("application/json", T_operation, TRUE, doc, "1.1", hs, "raises") :
        doc \in {<<"query">>, <<"subscription">>}, hs \in {{}, {"host"}}}

Next ==
    \/ http.phase = "idle" /\ \E req \in SampleRequests : HandleGraphql(req)
    \/ http.phase = "idle" /\ \E req \in SampleRequests : ViewGraphiql(req)
    \/ HandleSubscription
    \/ ExchangeDone
    \/ FollowLocation("s1")
    \/ ClientSubscribes("s1")
    \/ StreamStep("s1")
    \/ Shutdown
    \/ Tick

Spec == Init /\ [][Next]_vars

(***************************************************************************)
(* Properties.                                                             *)
(***************************************************************************)
SupportedTypes ==
    {"application/graphql", "application/json", "text/plain",
     "application/x-www-form-urlencoded", "multipart/form-data"}

\* The request's body cannot be decoded into an operation.
UnsupportedType(req) == req.content_type \notin SupportedTypes

MalformedBody(req) ==
    \/ req.content_type \in {"application/json", "text/plain"} /\ ~json_loads(req.text).ok
    \/ req.content_type = "multipart/form-data" /\ ~req.multipart_ok

MissingQuery(req) ==
    /\ ~UnsupportedType(req)
    /\ ~MalformedBody(req)
    /\ LET decoded == _get_query_document(req)
       IN ~decoded.raised /\ (decoded.value.t # "obj" \/ ~HasKey(decoded.value, K_query))

DecodingFails(req) == UnsupportedType(req) \/ MalformedBody(req) \/ MissingQuery(req)

\* The exchange at hand is a call of the direct endpoint that was answered.
Answered == http.handler = "handle_graphql" /\ http.phase # "idle"

SseLocation == <<PathPrefix, "/sse-subscription">>

HostKnown(req) ==
    IF req.http_version \in {"2", "2.0"} THEN ":authority" \in req.headers
    ELSE "host" \in req.headers

RequestedOperation == OperationOf(_get_query_document(http.request).value)

\* C2: the follow-up request to the location of a redirect decodes the same
\* query text, variables and operation name that handle_graphql encoded.
C2_RedirectRoundTrip ==
    http.phase = "followed" =>
        /\ sse[http.follower].pc = "created"
        /\ sse[http.follower].operation = RequestedOperation

\* C3: whenever decoding, parsing or execution fails, handle_graphql answers
\* with the generic failure response, and after a decoding failure the
\* engine's execute has not been called.
C3_FailuresAreDegraded ==
    Answered =>
        /\ DecodingFails(http.request) =>
              (http.response = INTERNAL_SERVER_ERROR /\ http.execute_calls = 0)
        /\ (~DecodingFails(http.request) /\ http.request.parse = GraphQLSyntaxError) =>
              http.response = INTERNAL_SERVER_ERROR
        /\ (/\ ~DecodingFails(http.request)
            /\ http.request.parse # GraphQLSyntaxError
            /\ \A i \in 1..Len(http.request.parse) : http.request.parse[i] # "subscription"
            /\ http.request.engine = "raises") =>
              http.response = INTERNAL_SERVER_ERROR

\* A request with a content type the decoder does not know, and whose query
\* the engine could have run, was answered with the generic failure.
C3_Witness ==
    /\ Answered
    /\ http.request.content_type = "image/png"
    /\ http.request.parse = <<"query">>
    /\ http.request.engine = "data"
    /\ http.response.status = 500
    /\ http.execute_calls = 0

\* C4: in direct execution a syntax error or a validation error of the
\* query text is carried in the 'errors' field of the JSON result, not
\* reported as the generic failure.
C4_QueryErrorsAreInBand ==
    (/\ Answered
     /\ ~DecodingFails(http.request)
     /\ \/ http.request.parse = GraphQLSyntaxError
        \/ /\ \A i \in 1..Len(http.request.parse) : http.request.parse[i] # "subscription"
           /\ http.request.engine = "validation_errors") =>
        /\ http.response.status = 200
        /\ http.response.result.errors

\* C5: a subscription whose setup failed (the query does not parse, or
\* subscribe returned a failure) is answered with one error object in place
\* of a stream, and no chunk of an event-stream body is ever produced.
C5_SetupFailureIsReported ==
    \A s \in Streams :
        sse[s].setup \in {"parse_error", "setup_failure"} =>
            /\ sse[s].response = "error_object"
            /\ sse[s].body = <<>>

IsMessage(frame) == frame.event = "message"
IsPing(frame) == frame.event = "ping"
IsError(frame) == frame.event = "error"

\* C6: a stream over a source that yielded N items and then failed has
\* emitted N message frames and then exactly one error indication, its last
\* frame.
C6_FailureIsIndicated ==
    \A s \in Streams :
        (sse[s].pc = "raised" /\ sse[s].source = "failed") =>
            /\ Len(SelectSeq(sse[s].body, IsMessage)) = sse[s].produced
            /\ Len(SelectSeq(sse[s].body, IsError)) = 1
            /\ IsError(sse[s].body[Len(sse[s].body)])

\* A stream that was open when shutdown() was first called.
Outstanding(s) == shutdown_calls > 0 /\ sse[s].before_shutdown

C8_CancellationIsMonotonic ==
    /\ [](cancellation_event => shutdown_calls > 0)
    /\ [][cancellation_event => cancellation_event']_vars
    /\ [][cancellation_event' # cancellation_event => shutdown_calls' > shutdown_calls]_vars

\* shutdown() was called repeatedly, the direct endpoint has answered with a
\* failure and an SSE stream has failed: the event is set.
C8_Witness ==
    /\ cancellation_event
    /\ shutdown_calls = MaxShutdowns
    /\ http.handler = "handle_graphql"
    /\ http.response.status = 500
    /\ sse["s1"].pc = "raised"

ExpectedFrame(val) ==
    IF val.some THEN [event |-> "message", data |-> val.item]
    ELSE [event |-> "ping", data |-> 0]

ExpectedBody(merged) ==
    Join([i \in 1..Len(merged) |-> <<ExpectedFrame(merged[i]), FLUSH>>], 1, Len(merged))

====
